---- MODULE Spec2Model ----
(***************************************************************************)
(* Training-load engine of the Project 2026 dashboard.                     *)
(*                                                                         *)
(* Two copies of the pipeline exist in the source: the inline block of     *)
(* dashboard.py (records -> TRIMP -> daily sums -> CTL/ATL/TSB -> latest   *)
(* row -> workload ratio -> status label) and utils.calculate_physiology   *)
(* (the same, plus the extension of the daily index to today).             *)
(*                                                                         *)
(* Numbers.  The source computes in IEEE doubles.  Here every load, CTL,   *)
(* ATL and TSB is a fixed-point integer counting thousandths (1000 = 1.0), *)
(* every division rounds down (\div), np.exp is its power series in the    *)
(* same fixed point, and the workload ratio is the exact fraction          *)
(* <<numerator, denominator>> compared by cross-multiplication.            *)
(*                                                                         *)
(* Dates.  A Date is <<day, slot>>: a calendar day number and a time of    *)
(* day within it.  today is a calendar day number.                         *)
(*                                                                         *)
(* Further parts: the AI coach of dashboard.py (ask_gemini_coach behind    *)
(* st.cache_data) and sync() of sync_garmin.py on the activity sheet.      *)
(***************************************************************************)
EXTENDS Integers, Sequences, FiniteSets

VARIABLES
    df,            \* the activity DataFrame returned by load_data(), in sheet order
    today,         \* datetime.date.today()
    pc,            \* position of the dashboard script / the call under way
    df_phys,       \* dashboard.py: the inline physiology series
    current_metrics, \* dashboard.py: df_phys.iloc[-1]
    curr_ctl,      \* dashboard.py: current_metrics['CTL']
    curr_atl,      \* dashboard.py: current_metrics['ATL']
    curr_tsb,      \* dashboard.py: current_metrics['TSB']
    load_ratio,    \* dashboard.py: the workload ratio, <<num, den>>
    status_text,   \* dashboard.py: the status label
    phys_result,   \* utils.py: what calculate_physiology(df) returned
    prev_run,      \* history: <<the outputs of the previous run of the script>>, if any
    duration_min,  \* argument of a direct call of calculate_trimp
    avg_hr,        \* argument of a direct call of calculate_trimp
    trimp,         \* utils.py: what calculate_trimp returned
    dash_trimp,    \* dashboard.py: what its calculate_trimp returned
    phys_exc,      \* dashboard.py: the exception caught by the except branch, if any
    st_messages    \* dashboard.py: what st.warning / st.error have put on the page

\* The AI coach of dashboard.py.
VARIABLES
    secrets_ok,    \* environment: st.secrets["GEMINI_API_KEY"] and genai.configure succeed
    responses,     \* environment: per model of the list, the text it answers or Fails
    m_idx,         \* ask_gemini_coach: position of the for loop in models
    called,        \* history: the models generate_content was called on, in order
    coach_result,  \* ask_gemini_coach: the value returned
    coach_exc,     \* ask_gemini_coach: the exception leaving the function
    cache,         \* st.cache_data: the value stored for the prompt, <<>> if none
    advice_text,   \* dashboard.py: advice_text
    error_display  \* dashboard.py: error_display

dashVars == <<df, today, df_phys, current_metrics, curr_ctl, curr_atl, curr_tsb,
              load_ratio, status_text, phys_result, prev_run, duration_min, avg_hr,
              trimp, dash_trimp, phys_exc, st_messages>>

coachVars == <<secrets_ok, responses, m_idx, called, coach_result, coach_exc, cache,
               advice_text, error_display>>

\* sync_garmin.py, sync().
VARIABLES
    sheet_rows,    \* the rows of sheet1 of the Google Sheet, top to bottom
    garmin_client, \* sync: TRUE for a client, FALSE for None
    sheet,         \* sync: TRUE for a Worksheet, FALSE for None
    existing_ids,  \* sync: existing_ids
    activities,    \* sync: activities
    new_rows,      \* sync: new_rows
    io_log         \* history: the calls of this run on Garmin and on the spreadsheet

syncVars == <<sheet_rows, garmin_client, sheet, existing_ids, activities, new_rows,
              io_log>>

\* sync_garmin.py, get_wellness_data().
VARIABLES
    wellness_sheet, \* the rows of the "Wellness" worksheet, <<>> while it does not exist
    existing_data,  \* get_wellness_data: existing_data
    existing_dates, \* get_wellness_data: existing_dates
    start_date,     \* get_wellness_data: start_date
    current_date,   \* get_wellness_data: current_date
    wellness_rows,  \* get_wellness_data: wellness_rows
    attempted,      \* history: the dates the loop of this run has attempted, in order
    failed,         \* history: the dates whose fetch / parse raised in this run
    sheet_before,   \* history: the worksheet when the loop of this run began
    run_clean       \* history: the sheet was read and no date has raised in this run

wellVars == <<wellness_sheet, existing_data, existing_dates, start_date, current_date,
              wellness_rows, attempted, failed, sheet_before, run_clean>>

\* Every variable of the dashboard script but today.
dashVarsButToday == <<df, df_phys, current_metrics, curr_ctl, curr_atl, curr_tsb,
                      load_ratio, status_text, phys_result, prev_run, duration_min,
                      avg_hr, trimp, dash_trimp, phys_exc, st_messages>>

\* sync_garmin.py, get_intraday_data() and sync_wellness_intraday().
VARIABLES
    days,           \* get_intraday_data: the parameter days
    via_sync,       \* the call comes from sync_wellness_intraday
    end_date,       \* get_intraday_data: end_date
    start,          \* get_intraday_data: start
    current,        \* get_intraday_data: current
    intraday_data,  \* get_intraday_data: intraday_data (of an entry its Date is kept)
    visited,        \* history: the days the loop has fetched for, in order
    intraday_sheet  \* the rows of the "Wellness_Intraday" worksheet

intraVars == <<days, via_sync, end_date, start, current, intraday_data, visited,
               intraday_sheet>>

vars == <<pc, dashVars, coachVars, syncVars, wellVars, intraVars>>

(***************************************************************************)
(* Bounds of the model.                                                    *)
(***************************************************************************)
MaxDay == 2
MaxRecords == 2
MaxAvgHr == 200
MaxStatusAtl == 2000
MaxActivityId == 2
MaxSheetRows == 8
MaxWellnessRows == 7
MaxIntradayDays == 4

Days == 0..MaxDay
Slots == {0, 1}
Dates == Days \X Slots

\* (Duration (min), Avg HR) of the workouts of the pipeline runs: no heart rate
\* recorded, a heart rate below the resting one, and a working heart rate.
Efforts == {<<45, 0>>, <<60, 40>>, <<30, 150>>}

Records == {[Date |-> d, Duration |-> e[1], AvgHR |-> e[2]] : d \in Dates, e \in Efforts}

\* pd.to_datetime turns an empty Date cell into NaT.
NaT == <<-1, -1>>

NaTRecords == {[Date |-> NaT, Duration |-> e[1], AvgHR |-> e[2]] : e \in Efforts}

\* The frames load_data() can return: rows with a Date each, in any order, or a
\* sheet whose Date column is empty (every Date NaT).
DataFrames == UNION {[1..n -> Records] : n \in 0..MaxRecords}
              \cup UNION {[1..n -> NaTRecords] : n \in 1..MaxRecords}

\* Arguments of the direct calls of calculate_trimp.  load_data coerces the sheet's
\* cells with pd.to_numeric and keeps whatever number results, negative ones too.
TrimpDurations == {-30, 0, 1, 30, 60, 180, 300}
TrimpHeartRates == {-150, -5} \cup 0..MaxAvgHr

\* Latest CTL / ATL values of the direct runs of the status block (thousandths).
StatusCtls == {-1000, 0, 1, 1000, 10000}
StatusAtls == (-50)..MaxStatusAtl \cup {8000, 13000, 13010, 15000, 16000, 5000}

None == "None"
Unset == "unset"
NoException == "no exception"
ValueError == "ValueError"

(***************************************************************************)
(* Physiology constants.                                                   *)
(***************************************************************************)
RHR == 45
MAX_HR == 197
HR_RESERVE == MAX_HR - RHR

dash_RHR == 45
dash_MAX_HR == 197
dash_HR_RESERVE == dash_MAX_HR - dash_RHR

(***************************************************************************)
(* np.exp on thousandths: 1 + x + x^2/2! + ..., each term rounded down,    *)
(* summed until the terms vanish.                                          *)
(***************************************************************************)
RECURSIVE ExpTerms(_, _, _)
ExpTerms(x, k, term) ==
    IF term = 0 THEN 0
    ELSE term + ExpTerms(x, k + 1, (term * x) \div (1000 * (k + 1)))

np_exp(x) == ExpTerms(x, 0, 1000)

(***************************************************************************)
(* calculate_trimp, utils.py and dashboard.py.  The result counts          *)
(* thousandths; hrr_factor counts thousandths; the product is taken left   *)
(* to right as in the source.                                              *)
(***************************************************************************)
\* Variant: a negative result is clamped to 0.
calculate_trimp_clamped(d_min, hr) ==
    IF hr = 0 THEN 0
    ELSE LET hrr_factor == ((hr - RHR) * 1000) \div HR_RESERVE
             t == ((((d_min * hrr_factor) * 64) \div 100)
                      * np_exp((192 * hrr_factor) \div 100)) \div 1000
         IN  IF t < 0 THEN 0 ELSE t

\* Variant: the avg_hr == 0 guard is missing.
calculate_trimp_noguard(d_min, hr) ==
    LET hrr_factor == ((hr - RHR) * 1000) \div HR_RESERVE
    IN  ((((d_min * hrr_factor) * 64) \div 100)
            * np_exp((192 * hrr_factor) \div 100)) \div 1000

calculate_trimp(d_min, hr) ==
    IF hr = 0 THEN 0
    ELSE LET hrr_factor == ((hr - RHR) * 1000) \div HR_RESERVE
         IN  ((((d_min * hrr_factor) * 64) \div 100)
                 * np_exp((192 * hrr_factor) \div 100)) \div 1000

dash_calculate_trimp(d_min, hr) ==
    IF hr = 0 THEN 0
    ELSE LET hrr_factor == ((hr - dash_RHR) * 1000) \div dash_HR_RESERVE
         IN  ((((d_min * hrr_factor) * 64) \div 100)
                 * np_exp((192 * hrr_factor) \div 100)) \div 1000

(***************************************************************************)
(* pandas operations used by both pipelines.                               *)
(***************************************************************************)
DateLeq(a, b) == a[1] < b[1] \/ (a[1] = b[1] /\ a[2] <= b[2])

SetMin(S) == CHOOSE x \in S : \A y \in S : x <= y
SetMax(S) == CHOOSE x \in S : \A y \in S : x >= y

\* DataFrame.sort_values("Date"): ascending, rows of equal Date in their old order.
InsertRow(sorted, r) ==
    LET k == Cardinality({i \in 1..Len(sorted) : DateLeq(sorted[i].Date, r.Date)})
    IN  SubSeq(sorted, 1, k) \o <<r>> \o SubSeq(sorted, k + 1, Len(sorted))

RECURSIVE sort_values(_)
sort_values(s) ==
    IF s = <<>> THEN <<>>
    ELSE InsertRow(sort_values(SubSeq(s, 1, Len(s) - 1)), s[Len(s)])

\* df_phys['TRIMP'] = df_phys.apply(lambda row: calculate_trimp(...), axis=1)
RECURSIVE apply_trimp(_)
apply_trimp(s) ==
    IF s = <<>> THEN <<>>
    ELSE <<[Date |-> Head(s).Date,
            TRIMP |-> calculate_trimp(Head(s).Duration, Head(s).AvgHR)]>>
         \o apply_trimp(Tail(s))

RECURSIVE dash_apply_trimp(_)
dash_apply_trimp(s) ==
    IF s = <<>> THEN <<>>
    ELSE <<[Date |-> Head(s).Date,
            TRIMP |-> dash_calculate_trimp(Head(s).Duration, Head(s).AvgHR)]>>
         \o dash_apply_trimp(Tail(s))

\* Variant: the last row of the day replaces the sum.
RECURSIVE DaySum_last(_, _)
DaySum_last(s, day) ==
    IF s = <<>> THEN 0
    ELSE IF s[Len(s)].Date[1] = day THEN s[Len(s)].TRIMP
    ELSE DaySum_last(SubSeq(s, 1, Len(s) - 1), day)

\* Variant: the first row of the day replaces the sum.
RECURSIVE DaySum_first(_, _)
DaySum_first(s, day) ==
    IF s = <<>> THEN 0
    ELSE IF Head(s).Date[1] = day THEN Head(s).TRIMP
    ELSE DaySum_first(Tail(s), day)

\* The sum of the TRIMP of the rows whose Date falls on calendar day `day`.
RECURSIVE DaySum(_, _)
DaySum(s, day) ==
    IF s = <<>> THEN 0
    ELSE (IF Head(s).Date[1] = day THEN Head(s).TRIMP ELSE 0) + DaySum(Tail(s), day)

\* The daily bins first..last, each with the sum of its rows (0 for an empty bin).
RECURSIVE DayBins(_, _, _)
DayBins(s, first, last) ==
    IF first > last THEN <<>>
    ELSE <<[Date |-> first, TRIMP |-> DaySum(s, first)]>> \o DayBins(s, first + 1, last)

\* Variant: groupby instead of resample, a bin only for the days that have rows.
RECURSIVE DayBinsOf(_, _, _, _)
DayBinsOf(s, binDays, first, last) ==
    IF first > last THEN <<>>
    ELSE (IF first \in binDays THEN <<[Date |-> first, TRIMP |-> DaySum(s, first)]>> ELSE <<>>)
         \o DayBinsOf(s, binDays, first + 1, last)

resample_sum_groupby(s) ==
    IF s = <<>> THEN <<>>
    ELSE LET binDays == {s[i].Date[1] : i \in 1..Len(s)}
         IN  DayBinsOf(s, binDays, SetMin(binDays), SetMax(binDays))

\* set_index('Date').resample('D')['TRIMP'].sum(): one bin per calendar day from
\* the day of the smallest Date to the day of the largest.
resample_sum(s) ==
    IF s = <<>> THEN <<>>
    ELSE LET binDays == {s[i].Date[1] : i \in 1..Len(s)}
         IN  DayBins(s, SetMin(binDays), SetMax(binDays))

\* Series.reindex(pd.date_range(start, end, freq='D'), fill_value=0): the value
\* the series holds at each date of the range, fill_value where it holds none.
RECURSIVE reindex(_, _, _)
reindex(ser, start_day, end_day) ==
    IF start_day > end_day THEN <<>>
    ELSE <<[Date |-> start_day,
            TRIMP |-> IF \E j \in 1..Len(ser) : ser[j].Date = start_day
                      THEN ser[CHOOSE j \in 1..Len(ser) : ser[j].Date = start_day].TRIMP
                      ELSE 0]>>
         \o reindex(ser, start_day + 1, end_day)

\* Variant: the index is never extended.
extend_to_today_never(ser, t) == ser

\* "Extend to today", utils.py only.
extend_to_today(ser, t) ==
    LET idx == {ser[i].Date : i \in 1..Len(ser)}
    IN  IF SetMax(idx) < t THEN reindex(ser, SetMin(idx), t) ELSE ser

\* Variant: the previous value is carried over undamped, y = y_prev + alpha x.
ewm_step_undamped(y_prev, x, span) == (2 * x + (span + 1) * y_prev) \div (span + 1)

\* Variant: alpha = 1 / span.
ewm_step_span(y_prev, x, span) == (x + (span - 1) * y_prev) \div span

\* Variant: a day without load is skipped, the smoothed value carried over.
ewm_step_skipzero(y_prev, x, span) ==
    IF x = 0 THEN y_prev ELSE (2 * x + (span - 1) * y_prev) \div (span + 1)

\* One step of the recurrence of ewm(span=span, adjust=False).mean():
\* y = (1 - alpha) y_prev + alpha x, alpha = 2 / (span + 1).
ewm_step(y_prev, x, span) == (2 * x + (span - 1) * y_prev) \div (span + 1)

EwmAppend(ys, x, span) == Append(ys, ewm_step(ys[Len(ys)], x, span))

\* Variant: the recurrence runs from the latest day back to the earliest.
RECURSIVE ewm_mean_backward(_, _)
ewm_mean_backward(ser, span) ==
    IF Len(ser) = 0 THEN <<>>
    ELSE IF Len(ser) = 1 THEN <<ser[1].TRIMP>>
    ELSE <<ewm_step(Head(ewm_mean_backward(Tail(ser), span)), Head(ser).TRIMP, span)>>
         \o ewm_mean_backward(Tail(ser), span)

\* Variant: the recurrence is seeded with the CTL the previous run ended on.
RECURSIVE ewm_mean_carried(_, _)
ewm_mean_carried(ser, span) ==
    IF Len(ser) = 0 THEN <<>>
    ELSE IF Len(ser) = 1
         THEN IF prev_run = <<>>
              THEN <<ser[1].TRIMP>>
              ELSE <<ewm_step(prev_run[1].curr_ctl, ser[1].TRIMP, span)>>
    ELSE EwmAppend(ewm_mean_carried(SubSeq(ser, 1, Len(ser) - 1), span),
                   ser[Len(ser)].TRIMP, span)

\* Series.ewm(span=span, adjust=False).mean() of the TRIMP column: y[1] = x[1].
RECURSIVE ewm_mean(_, _)
ewm_mean(ser, span) ==
    IF Len(ser) = 0 THEN <<>>
    ELSE IF Len(ser) = 1 THEN <<ser[1].TRIMP>>
    ELSE EwmAppend(ewm_mean(SubSeq(ser, 1, Len(ser) - 1), span), ser[Len(ser)].TRIMP, span)

\* Variant: the operands are exchanged.
tsb_of_swapped(ctl, atl) == atl - ctl

\* df_phys['TSB'] = df_phys['CTL'] - df_phys['ATL']
tsb_of(ctl, atl) == ctl - atl

RECURSIVE PhysRows(_, _, _)
PhysRows(ser, ctl, atl) ==
    IF ser = <<>> THEN <<>>
    ELSE <<[Date |-> Head(ser).Date, TRIMP |-> Head(ser).TRIMP,
            CTL |-> Head(ctl), ATL |-> Head(atl), TSB |-> tsb_of(Head(ctl), Head(atl))]>>
         \o PhysRows(Tail(ser), Tail(ctl), Tail(atl))

\* The CTL, ATL and TSB columns added to the daily series.
add_ctl_atl_tsb(ser) == PhysRows(ser, ewm_mean(ser, 42), ewm_mean(ser, 7))

(***************************************************************************)
(* utils.calculate_physiology(df)                                          *)
(***************************************************************************)
\* resample('D') on an index holding nothing but NaT has no first and no last day
\* to build its bins from: it raises ValueError.
Raises(d) == Len(d) > 0 /\ \A i \in 1..Len(d) : d[i].Date = NaT

\* Variant: an empty frame yields an empty series instead of None.
calculate_physiology_noguard(d, t) ==
    IF Len(d) = 0 THEN <<>>
    ELSE IF Raises(d) THEN ValueError
    ELSE add_ctl_atl_tsb(extend_to_today(resample_sum(apply_trimp(sort_values(d))), t))

\* The value returned, or the exception that leaves the function (it has no try).
calculate_physiology(d, t) ==
    IF Len(d) = 0 THEN None
    ELSE IF Raises(d) THEN ValueError
    ELSE add_ctl_atl_tsb(extend_to_today(resample_sum(apply_trimp(sort_values(d))), t))

(***************************************************************************)
(* dashboard.py, "Global Physiology Calculations"                          *)
(***************************************************************************)
dash_physiology(d) ==
    add_ctl_atl_tsb(resample_sum(dash_apply_trimp(sort_values(d))))

\* Variant: the guard admits curr_ctl == 0.
ratio_of_geq(atl, ctl) == IF ctl >= 0 THEN <<atl, ctl>> ELSE <<0, 1>>

\* load_ratio = curr_atl / curr_ctl if curr_ctl > 0 else 0
ratio_of(atl, ctl) == IF ctl > 0 THEN <<atl, ctl>> ELSE <<0, 1>>

\* p/q <= r for a fraction r = <<n, d>> with d > 0; p/q < r likewise.
FracLeq(a, b) == a[1] * b[2] <= b[1] * a[2]
FracLt(a, b)  == a[1] * b[2] <  b[1] * a[2]

\* Variant: the upper end of the High band is exclusive.
status_of_strict(r) ==
    IF FracLeq(<<8, 10>>, r) /\ FracLeq(r, <<13, 10>>) THEN "Optimal"
    ELSE IF FracLt(<<13, 10>>, r) /\ FracLt(r, <<15, 10>>) THEN "High"
    ELSE IF FracLt(<<15, 10>>, r) THEN "Overreach"
    ELSE "Recovery"

\* the if / elif / elif / else chain on load_ratio
status_of(r) ==
    IF FracLeq(<<8, 10>>, r) /\ FracLeq(r, <<13, 10>>) THEN "Optimal"
    ELSE IF FracLt(<<13, 10>>, r) /\ FracLeq(r, <<15, 10>>) THEN "High"
    ELSE IF FracLt(<<15, 10>>, r) THEN "Overreach"
    ELSE "Recovery"

(***************************************************************************)
(* The dashboard script: load_data(), the df.empty guard, the physiology   *)
(* block, then (from a caller of utils) calculate_physiology(df); a rerun  *)
(* executes the script again from the top.                                 *)
(***************************************************************************)
NoOutputs ==
    /\ df_phys = Unset
    /\ current_metrics = Unset
    /\ curr_ctl = Unset
    /\ curr_atl = Unset
    /\ curr_tsb = Unset
    /\ load_ratio = Unset
    /\ status_text = Unset
    /\ phys_result = Unset

NoTrimpCall ==
    /\ duration_min = Unset
    /\ avg_hr = Unset
    /\ trimp = Unset
    /\ dash_trimp = Unset

\* get_intraday_data() is not under way.
NoIntraday ==
    /\ days = Unset
    /\ via_sync = Unset
    /\ end_date = Unset
    /\ start = Unset
    /\ current = Unset
    /\ intraday_data = Unset
    /\ visited = Unset
    /\ intraday_sheet = Unset

\* get_wellness_data() is not under way.
NoWellness ==
    /\ wellness_sheet = Unset
    /\ existing_data = Unset
    /\ existing_dates = Unset
    /\ start_date = Unset
    /\ current_date = Unset
    /\ wellness_rows = Unset
    /\ attempted = Unset
    /\ failed = Unset
    /\ sheet_before = Unset
    /\ run_clean = Unset

\* sync() is not under way.
NoSync ==
    /\ sheet_rows = Unset
    /\ garmin_client = Unset
    /\ sheet = Unset
    /\ existing_ids = Unset
    /\ activities = Unset
    /\ new_rows = Unset
    /\ io_log = Unset

\* The coach section of the script is not under way.
NoCoach ==
    /\ secrets_ok = Unset
    /\ responses = Unset
    /\ m_idx = Unset
    /\ called = Unset
    /\ coach_result = Unset
    /\ coach_exc = Unset
    /\ cache = Unset
    /\ advice_text = Unset
    /\ error_display = Unset

\* df = load_data() has returned; nothing is computed yet.
Init ==
    /\ df \in DataFrames
    /\ today \in Days
    /\ pc = "loaded"
    /\ NoOutputs
    /\ NoTrimpCall
    /\ prev_run = <<>>
    /\ phys_exc = NoException
    /\ st_messages = <<>>
    /\ NoCoach
    /\ NoWellness
    /\ NoIntraday
    /\ NoSync

\* if df.empty: st.warning(...); st.stop()
EmptyGuard ==
    /\ pc = "loaded"
    /\ Len(df) = 0
    /\ st_messages' = Append(st_messages, "No data found. Please run the sync script.")
    /\ pc' = "stopped"
    /\ UNCHANGED <<df, today, df_phys, current_metrics, curr_ctl, curr_atl, curr_tsb,
                   load_ratio, status_text, phys_result, prev_run, duration_min,
                   avg_hr, trimp, dash_trimp, phys_exc>>
    /\ UNCHANGED <<coachVars, syncVars, wellVars, intraVars>>

\* try: df_phys = ...; current_metrics = df_phys.iloc[-1]; curr_ctl, curr_atl, curr_tsb
\* (load_data() has made Duration / Avg HR numbers; with a day to start the bins
\* from no step of the block raises).
GlobalPhysiology ==
    /\ pc = "loaded"
    /\ Len(df) > 0
    /\ ~Raises(df)
    /\ df_phys' = dash_physiology(df)
    /\ current_metrics' = df_phys'[Len(df_phys')]
    /\ curr_ctl' = current_metrics'.CTL
    /\ curr_atl' = current_metrics'.ATL
    /\ curr_tsb' = current_metrics'.TSB
    /\ pc' = "metrics"
    /\ UNCHANGED <<df, today, load_ratio, status_text, phys_result, prev_run,
                   duration_min, avg_hr, trimp, dash_trimp, phys_exc, st_messages>>
    /\ UNCHANGED <<coachVars, syncVars, wellVars, intraVars>>

\* The try block raising at resample (df_phys is by then the sorted frame with its
\* TRIMP column), and the except branch: the four numbers 0, the label "N/A";
\* nothing is put on the page.
PhysiologyExcept ==
    /\ pc = "loaded"
    /\ Len(df) > 0
    /\ Raises(df)
    /\ df_phys' = dash_apply_trimp(sort_values(df))
    /\ phys_exc' = ValueError
    /\ curr_ctl' = 0
    /\ curr_atl' = 0
    /\ curr_tsb' = 0
    /\ load_ratio' = <<0, 1>>
    /\ status_text' = "N/A"
    /\ pc' = "rendered"
    /\ UNCHANGED <<df, today, current_metrics, phys_result, prev_run, duration_min,
                   avg_hr, trimp, dash_trimp, st_messages>>
    /\ UNCHANGED <<coachVars, syncVars, wellVars, intraVars>>

\* load_ratio = ...; the if / elif chain setting status_text
WorkloadStatus ==
    /\ pc = "metrics"
    /\ load_ratio' = ratio_of(curr_atl, curr_ctl)
    /\ status_text' = status_of(load_ratio')
    /\ pc' = "rendered"
    /\ UNCHANGED <<df, today, df_phys, current_metrics, curr_ctl, curr_atl, curr_tsb,
                   phys_result, prev_run, duration_min, avg_hr, trimp, dash_trimp,
                   phys_exc, st_messages>>
    /\ UNCHANGED <<coachVars, syncVars, wellVars, intraVars>>

\* utils.calculate_physiology(df), called on the loaded frame.  It reads df and
\* today only and writes phys_result only, so it commutes with the steps of the
\* script; it is placed after them.
CallCalculatePhysiology ==
    /\ pc \in {"stopped", "rendered"}
    /\ phys_result' = calculate_physiology(df, today)
    /\ pc' = "returned"
    /\ UNCHANGED <<df, today, df_phys, current_metrics, curr_ctl, curr_atl, curr_tsb,
                   load_ratio, status_text, prev_run, duration_min, avg_hr, trimp,
                   dash_trimp, phys_exc, st_messages>>
    /\ UNCHANGED <<coachVars, syncVars, wellVars, intraVars>>

Outputs ==
    [df_phys |-> df_phys, current_metrics |-> current_metrics, curr_ctl |-> curr_ctl,
     curr_atl |-> curr_atl, curr_tsb |-> curr_tsb, load_ratio |-> load_ratio,
     status_text |-> status_text, phys_result |-> phys_result,
     phys_exc |-> phys_exc, st_messages |-> st_messages]

\* st.rerun(): the script runs again from the top on the same sheet, the same day
Rerun ==
    /\ pc = "returned"
    /\ prev_run' = <<Outputs>>
    /\ pc' = "loaded"
    /\ df_phys' = Unset
    /\ current_metrics' = Unset
    /\ curr_ctl' = Unset
    /\ curr_atl' = Unset
    /\ curr_tsb' = Unset
    /\ load_ratio' = Unset
    /\ status_text' = Unset
    /\ phys_result' = Unset
    /\ phys_exc' = NoException
    /\ st_messages' = <<>>
    /\ UNCHANGED <<df, today, duration_min, avg_hr, trimp, dash_trimp>>
    /\ UNCHANGED <<coachVars, syncVars, wellVars, intraVars>>

Next ==
    \/ EmptyGuard
    \/ GlobalPhysiology
    \/ PhysiologyExcept
    \/ WorkloadStatus
    \/ CallCalculatePhysiology
    \/ Rerun

Spec == Init /\ [][Next]_vars

(***************************************************************************)
(* Direct calls of calculate_trimp on drawn arguments.                     *)
(***************************************************************************)
InitTrimp ==
    /\ df = <<>>
    /\ today = 0
    /\ pc = "call_trimp"
    /\ NoOutputs
    /\ prev_run = <<>>
    /\ duration_min \in TrimpDurations
    /\ avg_hr \in TrimpHeartRates
    /\ trimp = Unset
    /\ dash_trimp = Unset
    /\ phys_exc = NoException
    /\ st_messages = <<>>
    /\ NoCoach
    /\ NoWellness
    /\ NoIntraday
    /\ NoSync

CallTrimp ==
    /\ pc = "call_trimp"
    /\ trimp' = calculate_trimp(duration_min, avg_hr)
    /\ dash_trimp' = dash_calculate_trimp(duration_min, avg_hr)
    /\ pc' = "trimp_returned"
    /\ UNCHANGED <<df, today, df_phys, current_metrics, curr_ctl, curr_atl, curr_tsb,
                   load_ratio, status_text, phys_result, prev_run, duration_min, avg_hr,
                   phys_exc, st_messages>>
    /\ UNCHANGED <<coachVars, syncVars, wellVars, intraVars>>

NextTrimp == CallTrimp

SpecTrimp == InitTrimp /\ [][NextTrimp]_vars

(***************************************************************************)
(* The status block run on drawn latest CTL / ATL values.                  *)
(***************************************************************************)
InitStatus ==
    /\ df = <<>>
    /\ today = 0
    /\ pc = "metrics"
    /\ df_phys = Unset
    /\ current_metrics = Unset
    /\ curr_ctl \in StatusCtls
    /\ curr_atl \in StatusAtls
    /\ curr_tsb = tsb_of(curr_ctl, curr_atl)
    /\ load_ratio = Unset
    /\ status_text = Unset
    /\ phys_result = Unset
    /\ prev_run = <<>>
    /\ NoTrimpCall
    /\ phys_exc = NoException
    /\ st_messages = <<>>
    /\ NoCoach
    /\ NoWellness
    /\ NoIntraday
    /\ NoSync

NextStatus == WorkloadStatus

SpecStatus == InitStatus /\ [][NextStatus]_vars

(***************************************************************************)
(* dashboard.py, the AI coach: ask_gemini_coach under st.cache_data, its   *)
(* caller, the Refresh Advice button.  The prompt is one fixed text, so    *)
(* the cache holds at most one value.  An exception is the sequence of the *)
(* words of its message; <<>> is no exception.                             *)
(***************************************************************************)
models == <<"gemini-1.5-flash", "gemini-2.0-flash-exp", "gemini-2.0-flash">>

\* response.text of a model that answers.
Texts == {"", "Rest today.", "Push for volume."}

\* What genai.GenerativeModel(m).generate_content(prompt_text).text does for one
\* model: raises, or yields a text.
ModelOutcomes == {[ok |-> FALSE, text |-> ""]} \cup {[ok |-> TRUE, text |-> t] : t \in Texts}

CoachEnvironments == [1..Len(models) -> ModelOutcomes]

KeyErrorMessage == <<"st.secrets", "has", "no", "key", "GEMINI_API_KEY">>
AllFailedMessage == <<"All", "Gemini", "models", "failed", "to", "respond.">>

\* "429" in err_str or "Quota" in err_str
MentionsRateLimit(err_str) ==
    \E i \in 1..Len(err_str) : err_str[i] \in {"429", "Quota"}

InitCoach ==
    /\ df = <<>>
    /\ today = 0
    /\ NoOutputs
    /\ NoTrimpCall
    /\ prev_run = <<>>
    /\ phys_exc = NoException
    /\ st_messages = <<>>
    /\ NoSync
    /\ NoWellness
    /\ NoIntraday
    /\ pc = "coach_start"
    /\ secrets_ok \in BOOLEAN
    /\ responses \in CoachEnvironments
    /\ m_idx = 1
    /\ called = <<>>
    /\ coach_result = ""
    /\ coach_exc = <<>>
    /\ cache = <<>>
    /\ advice_text = ""
    /\ error_display = <<>>

\* advice_text = ""; error_display = ""; advice_text = ask_gemini_coach(prompt):
\* st.cache_data answers from the cache when it holds a value for the prompt and
\* runs the function otherwise.
CoachCall ==
    /\ pc = "coach_start"
    /\ error_display' = <<>>
    /\ IF cache # <<>>
       THEN advice_text' = cache[1] /\ pc' = "coach_shown"
       ELSE advice_text' = "" /\ pc' = "coach_body"
    /\ UNCHANGED <<secrets_ok, responses, m_idx, called, coach_result, coach_exc, cache>>
    /\ UNCHANGED <<dashVars, syncVars, wellVars, intraVars>>

\* GENAI_API_KEY = st.secrets["GEMINI_API_KEY"]; genai.configure(...); a failure
\* leaves through `except Exception as outer_e: raise outer_e`.
CoachConfigure ==
    /\ pc = "coach_body"
    /\ IF secrets_ok
       THEN pc' = "coach_loop" /\ coach_exc' = coach_exc
       ELSE pc' = "coach_raised" /\ coach_exc' = KeyErrorMessage
    /\ m_idx' = 1
    /\ UNCHANGED <<secrets_ok, responses, called, coach_result, cache, advice_text,
                   error_display>>
    /\ UNCHANGED <<dashVars, syncVars, wellVars, intraVars>>

\* for m in models: try: ... return response.text / except Exception: continue
CoachTryModel ==
    /\ pc = "coach_loop"
    /\ m_idx <= Len(models)
    /\ called' = Append(called, models[m_idx])
    /\ IF responses[m_idx].ok
       THEN /\ coach_result' = responses[m_idx].text
            /\ pc' = "coach_return"
            /\ m_idx' = m_idx
       ELSE /\ coach_result' = coach_result
            /\ pc' = pc
            /\ m_idx' = m_idx + 1
    /\ UNCHANGED <<secrets_ok, responses, coach_exc, cache, advice_text, error_display>>
    /\ UNCHANGED <<dashVars, syncVars, wellVars, intraVars>>

\* Variant: after the last model a placeholder text is returned.
CoachAllFailed_placeholder ==
    /\ pc = "coach_loop"
    /\ m_idx > Len(models)
    /\ coach_result' = "Coach unavailable."
    /\ pc' = "coach_return"
    /\ UNCHANGED <<secrets_ok, responses, m_idx, called, coach_exc, cache, advice_text,
                   error_display>>
    /\ UNCHANGED <<dashVars, syncVars, wellVars, intraVars>>

\* raise Exception("All Gemini models failed to respond."), re-raised by the outer
\* except.
CoachAllFailed ==
    /\ pc = "coach_loop"
    /\ m_idx > Len(models)
    /\ coach_exc' = AllFailedMessage
    /\ pc' = "coach_raised"
    /\ UNCHANGED <<secrets_ok, responses, m_idx, called, coach_result, cache, advice_text,
                   error_display>>
    /\ UNCHANGED <<dashVars, syncVars, wellVars, intraVars>>

\* The function returns: st.cache_data stores the value, the caller binds
\* advice_text and shows the card.
CoachReturn ==
    /\ pc = "coach_return"
    /\ cache' = <<coach_result>>
    /\ advice_text' = coach_result
    /\ pc' = "coach_shown"
    /\ UNCHANGED <<secrets_ok, responses, m_idx, called, coach_result, coach_exc,
                   error_display>>
    /\ UNCHANGED <<dashVars, syncVars, wellVars, intraVars>>

\* The function raises: nothing is stored; the caller's except builds
\* error_display and the fallback card is shown.
CoachExcept ==
    /\ pc = "coach_raised"
    /\ error_display' =
           IF MentionsRateLimit(coach_exc)
           THEN <<"Coach is resting (Rate Limit hit). Try again later.">>
           ELSE <<"Coach Offline: ">> \o coach_exc
    /\ pc' = "coach_shown"
    /\ UNCHANGED <<secrets_ok, responses, m_idx, called, coach_result, coach_exc, cache,
                   advice_text>>
    /\ UNCHANGED <<dashVars, syncVars, wellVars, intraVars>>

\* The next run of the script starts: the locals are gone, the services answer as
\* they then do.
NewCoachRun ==
    /\ pc' = "coach_start"
    /\ secrets_ok' \in BOOLEAN
    /\ responses' \in CoachEnvironments
    /\ m_idx' = 1
    /\ called' = <<>>
    /\ coach_result' = ""
    /\ coach_exc' = <<>>
    /\ advice_text' = ""
    /\ error_display' = <<>>
    /\ UNCHANGED <<dashVars, syncVars, wellVars, intraVars>>

\* if st.button("Refresh Advice"): ask_gemini_coach.clear(); st.rerun()
RefreshAdvice ==
    /\ pc = "coach_shown"
    /\ cache' = <<>>
    /\ NewCoachRun

\* Any other rerun of the script; the cached value stays unless its ttl of 21600 s
\* has run out.
CoachRerun ==
    /\ pc = "coach_shown"
    /\ \E expired \in BOOLEAN : cache' = IF expired THEN <<>> ELSE cache
    /\ NewCoachRun

NextCoach ==
    \/ CoachCall
    \/ CoachConfigure
    \/ CoachTryModel
    \/ CoachAllFailed
    \/ CoachReturn
    \/ CoachExcept
    \/ RefreshAdvice
    \/ CoachRerun

SpecCoach == InitCoach /\ [][NextCoach]_vars

(***************************************************************************)
(* sync_garmin.py: sync() as the module leaves it defined (the second def, *)
(* which replaces the first), on sheet1 of the spreadsheet.  A row of the  *)
(* sheet is the header row or the row of one activity, of which only the   *)
(* Activity ID is kept.  The Wellness and Intraday worksheets are written  *)
(* by get_wellness_data and sync_wellness_intraday; sheet1 is not.         *)
(***************************************************************************)
ActivityIds == 1..MaxActivityId

HeaderRow == [header |-> TRUE, id |-> 0]

ActivityRow(a) == [header |-> FALSE, id |-> a]

\* str() of a small non-negative integer: its decimal digit.
Digits == <<"0", "1", "2", "3", "4", "5", "6", "7", "8", "9">>

str(n) == Digits[n + 1]

\* str(row.get("Activity ID")) of a row read back by get_all_records: the number
\* of an activity row, the column title of a header row found among the data.
ActivityIdText(row) == IF row.header THEN "Activity ID" ELSE str(row.id)

\* Worksheet.get_all_records(): the first row gives the keys, the others the records.
get_all_records(rows) == IF rows = <<>> THEN <<>> ELSE Tail(rows)

\* set(str(row.get("Activity ID")) for row in existing_data)
IdsOf(data) == {ActivityIdText(data[i]) : i \in 1..Len(data)}

\* garmin_client.get_activities_by_date(start_date, today): the activities Garmin
\* holds, newest (highest id) first.
RECURSIVE Listing(_)
Listing(S) ==
    IF S = {} THEN <<>>
    ELSE <<SetMax(S)>> \o Listing(S \ {SetMax(S)})

\* get_activities: the list, or [] when the fetch raises.
ActivityLists == {Listing(S) : S \in SUBSET ActivityIds}

RECURSIVE process_activities(_)
process_activities(acts) ==
    IF acts = <<>> THEN <<>>
    ELSE <<ActivityRow(Head(acts))>> \o process_activities(Tail(acts))

\* for record in processed_data: ... ; st.rows is the sheet, st.new_rows the list
\* being collected.
RECURSIVE AppendLoop(_, _, _)
AppendLoop(processed_data, ids, st) ==
    IF processed_data = <<>> THEN st
    ELSE LET record == Head(processed_data)
         IN  AppendLoop(Tail(processed_data), ids,
                 IF str(record.id) \notin ids
                 THEN [rows |-> IF ids = {} /\ st.new_rows = <<>>
                                THEN Append(st.rows, HeaderRow)
                                ELSE st.rows,
                       new_rows |-> Append(st.new_rows, record)]
                 ELSE st)

InitSync ==
    /\ df = <<>>
    /\ today = 0
    /\ NoOutputs
    /\ NoTrimpCall
    /\ prev_run = <<>>
    /\ phys_exc = NoException
    /\ st_messages = <<>>
    /\ NoCoach
    /\ NoWellness
    /\ NoIntraday
    /\ pc = "sync_idle"
    /\ sheet_rows = <<>>
    /\ garmin_client = FALSE
    /\ sheet = FALSE
    /\ existing_ids = {}
    /\ activities = <<>>
    /\ new_rows = <<>>
    /\ io_log = <<>>

\* A run of sync() starts: init_garmin(), init_gspread(), sheet.spreadsheet (an
\* AttributeError when sheet is None), then the test of the two.
SyncInit ==
    /\ pc \in {"sync_idle", "sync_returned", "sync_raised"}
    /\ Len(sheet_rows) + MaxActivityId + 1 <= MaxSheetRows
    /\ garmin_client' \in BOOLEAN
    /\ sheet' \in BOOLEAN
    /\ pc' = IF ~sheet' THEN "sync_raised"
             ELSE IF ~garmin_client' THEN "sync_returned"
             ELSE "sync_ready"
    /\ existing_ids' = {}
    /\ activities' = <<>>
    /\ new_rows' = <<>>
    /\ io_log' = <<>>
    /\ UNCHANGED sheet_rows
    /\ UNCHANGED <<dashVars, coachVars, wellVars, intraVars>>

\* try: existing_data = sheet.get_all_records(); existing_ids = set(...)
\* except Exception: existing_ids = set()
SyncReadExisting ==
    /\ pc = "sync_ready"
    /\ \E readable \in BOOLEAN :
           existing_ids' = IF readable THEN IdsOf(get_all_records(sheet_rows)) ELSE {}
    /\ io_log' = Append(io_log, "sheet.get_all_records")
    /\ pc' = "sync_fetch"
    /\ UNCHANGED <<sheet_rows, garmin_client, sheet, activities, new_rows>>
    /\ UNCHANGED <<dashVars, coachVars, wellVars, intraVars>>

\* activities = get_activities(garmin_client)
SyncFetch ==
    /\ pc = "sync_fetch"
    /\ activities' \in ActivityLists
    /\ io_log' = Append(io_log, "get_activities_by_date")
    /\ pc' = "sync_append"
    /\ UNCHANGED <<sheet_rows, garmin_client, sheet, existing_ids, new_rows>>
    /\ UNCHANGED <<dashVars, coachVars, wellVars, intraVars>>

\* if activities: the loop over processed_data, then sheet.append_rows(new_rows)
SyncAppend ==
    /\ pc = "sync_append"
    /\ LET st == AppendLoop(process_activities(activities), existing_ids,
                            [rows |-> sheet_rows, new_rows |-> <<>>])
       IN  /\ new_rows' = st.new_rows
           /\ sheet_rows' = st.rows \o st.new_rows
           /\ io_log' = io_log
                  \o (IF Len(st.rows) > Len(sheet_rows) THEN <<"sheet.append_row">> ELSE <<>>)
                  \o (IF st.new_rows # <<>> THEN <<"sheet.append_rows">> ELSE <<>>)
    /\ pc' = "sync_wellness"
    /\ UNCHANGED <<garmin_client, sheet, existing_ids, activities>>
    /\ UNCHANGED <<dashVars, coachVars, wellVars, intraVars>>

\* get_wellness_data(garmin_client, spreadsheet);
\* sync_wellness_intraday(garmin_client, spreadsheet); sync returns.
SyncWellness ==
    /\ pc = "sync_wellness"
    /\ io_log' = io_log \o <<"get_wellness_data", "sync_wellness_intraday">>
    /\ pc' = "sync_returned"
    /\ UNCHANGED <<sheet_rows, garmin_client, sheet, existing_ids, activities, new_rows>>
    /\ UNCHANGED <<dashVars, coachVars, wellVars, intraVars>>

NextSync ==
    \/ SyncInit
    \/ SyncReadExisting
    \/ SyncFetch
    \/ SyncAppend
    \/ SyncWellness

SpecSync == InitSync /\ [][NextSync]_vars

(***************************************************************************)
(* sync_garmin.py: get_wellness_data(garmin_client, sheet_conn), run after *)
(* run on the "Wellness" worksheet.  A day number counts the days since    *)
(* 2025-01-01; the days of the model lie around that day.  A date string   *)
(* "YYYY-MM-DD" is <<year, month, day of month>>, compared like the text.  *)
(* Of a row the Date and one fetched value are kept.                       *)
(***************************************************************************)
Jan1_2025 == 0

\* date.isoformat(), for the days of December 2024 and January 2025
isoformat(d) == IF d >= 0 THEN <<2025, 1, d + 1>> ELSE <<2024, 12, 32 + d>>

\* datetime.datetime.strptime(last_date_str, "%Y-%m-%d").date()
strptime(date_str) == IF date_str[1] = 2025 THEN date_str[3] - 1 ELSE date_str[3] - 32

\* a <= b for two date strings (comparison of str)
StrLeq(a, b) ==
    \/ a[1] < b[1]
    \/ a[1] = b[1] /\ a[2] < b[2]
    \/ a[1] = b[1] /\ a[2] = b[2] /\ a[3] <= b[3]

\* max(existing_dates)
MaxStr(S) == CHOOSE x \in S : \A y \in S : StrLeq(y, x)

WellnessHeader == [header |-> TRUE, Date |-> <<0, 0, 0>>, value |-> 0]

\* What one day's fetches give once parsed (a step count stands for the row).
Measurements == {4000, 9000}

\* The try block of one date: it raises, or it yields new_row.
FetchOutcomes == {[ok |-> FALSE, value |-> 0]} \cup {[ok |-> TRUE, value |-> v] : v \in Measurements}

\* set(row.get("Date") for row in existing_data)
DatesOf(data) == {data[i].Date : i \in 1..Len(data)}

\* next((i for i, row in enumerate(existing_data)
\*       if str(row.get("Date")).startswith(date_str)), None), counted from 1; 0 for None
RowIdx(data, date_str) ==
    IF \E i \in 1..Len(data) : data[i].Date = date_str
    THEN SetMin({i \in 1..Len(data) : data[i].Date = date_str})
    ELSE 0

\* start_date before the clamp to today
StartDate(dates) ==
    IF dates # {} THEN strptime(MaxStr(dates)) ELSE Jan1_2025

InitWellness ==
    /\ df = <<>>
    /\ today \in Days
    /\ NoOutputs
    /\ NoTrimpCall
    /\ prev_run = <<>>
    /\ phys_exc = NoException
    /\ st_messages = <<>>
    /\ NoCoach
    /\ NoSync
    /\ NoIntraday
    /\ pc = "well_idle"
    /\ wellness_sheet = <<>>
    /\ existing_data = <<>>
    /\ existing_dates = {}
    /\ start_date = Jan1_2025
    /\ current_date = Jan1_2025
    /\ wellness_rows = <<>>
    /\ attempted = <<>>
    /\ failed = {}
    /\ sheet_before = <<>>
    /\ run_clean = FALSE

\* The part before the loop: the worksheet is opened (created with its header row
\* if missing), read, start_date found and clamped to today.
WellnessStart ==
    /\ pc \in {"well_idle", "well_done"}
    /\ Len(wellness_sheet) + MaxDay + 2 <= MaxWellnessRows
    /\ wellness_sheet' = IF wellness_sheet = <<>> THEN <<WellnessHeader>> ELSE wellness_sheet
    /\ \E readable \in BOOLEAN :
           /\ existing_data' = IF readable THEN Tail(wellness_sheet') ELSE <<>>
           /\ run_clean' = readable
    /\ existing_dates' = DatesOf(existing_data')
    /\ start_date' = IF StartDate(existing_dates') > today THEN today
                     ELSE StartDate(existing_dates')
    /\ current_date' = start_date'
    /\ wellness_rows' = <<>>
    /\ attempted' = <<>>
    /\ failed' = {}
    /\ sheet_before' = wellness_sheet'
    /\ pc' = "well_loop"
    /\ UNCHANGED <<dashVars, coachVars, syncVars, intraVars>>

\* Variant: a date that raises is not stepped over (the except leaves the pass
\* before current_date is advanced).
WellnessDay_stuck ==
    /\ pc = "well_loop"
    /\ current_date <= today
    /\ \E outcome \in FetchOutcomes :
           LET date_str == isoformat(current_date)
               new_row == [header |-> FALSE, Date |-> date_str, value |-> outcome.value]
               row_idx == RowIdx(existing_data, date_str)
           IN  IF ~outcome.ok
               THEN /\ failed' = failed \cup {current_date}
                    /\ run_clean' = FALSE
                    /\ current_date' = current_date
                    /\ UNCHANGED <<wellness_sheet, wellness_rows>>
               ELSE /\ UNCHANGED <<failed, run_clean>>
                    /\ current_date' = current_date + 1
                    /\ IF date_str \in existing_dates
                       THEN /\ wellness_sheet' =
                                   IF row_idx # 0
                                   THEN [wellness_sheet EXCEPT ![row_idx + 1] = new_row]
                                   ELSE wellness_sheet
                            /\ UNCHANGED wellness_rows
                       ELSE /\ wellness_rows' = Append(wellness_rows, new_row)
                            /\ UNCHANGED wellness_sheet
    /\ attempted' = Append(attempted, current_date)
    /\ UNCHANGED <<pc, existing_data, existing_dates, start_date, sheet_before>>
    /\ UNCHANGED <<dashVars, coachVars, syncVars, intraVars>>

\* One pass of `while current_date <= today`: the fetches and the parse in the try
\* block, the update in place or the append to wellness_rows, the except, the
\* step to the next day.
WellnessDay ==
    /\ pc = "well_loop"
    /\ current_date <= today
    /\ \E outcome \in FetchOutcomes :
           LET date_str == isoformat(current_date)
               new_row == [header |-> FALSE, Date |-> date_str, value |-> outcome.value]
               row_idx == RowIdx(existing_data, date_str)
           IN  IF ~outcome.ok
               THEN /\ failed' = failed \cup {current_date}
                    /\ run_clean' = FALSE
                    /\ UNCHANGED <<wellness_sheet, wellness_rows>>
               ELSE /\ UNCHANGED <<failed, run_clean>>
                    /\ IF date_str \in existing_dates
                       THEN /\ wellness_sheet' =
                                   IF row_idx # 0
                                   THEN [wellness_sheet EXCEPT ![row_idx + 1] = new_row]
                                   ELSE wellness_sheet
                            /\ UNCHANGED wellness_rows
                       ELSE /\ wellness_rows' = Append(wellness_rows, new_row)
                            /\ UNCHANGED wellness_sheet
    /\ attempted' = Append(attempted, current_date)
    /\ current_date' = current_date + 1
    /\ UNCHANGED <<pc, existing_data, existing_dates, start_date, sheet_before>>
    /\ UNCHANGED <<dashVars, coachVars, syncVars, intraVars>>

\* The loop is left; if wellness_rows: wellness_sheet.append_rows(wellness_rows).
WellnessAppend ==
    /\ pc = "well_loop"
    /\ current_date > today
    /\ wellness_sheet' = wellness_sheet \o wellness_rows
    /\ pc' = "well_done"
    /\ UNCHANGED <<existing_data, existing_dates, start_date, current_date, wellness_rows,
                   attempted, failed, sheet_before, run_clean>>
    /\ UNCHANGED <<dashVars, coachVars, syncVars, intraVars>>

\* Between two runs datetime.date.today() may have moved on a day, or, the next run
\* being on a machine in another time zone, back a day.
ClockMoves ==
    /\ pc = "well_done"
    /\ today' \in {today - 1, today + 1} \cap Days
    /\ pc' = "well_idle"
    /\ UNCHANGED wellVars
    /\ UNCHANGED <<dashVarsButToday, coachVars, syncVars, intraVars>>

NextWellness ==
    \/ WellnessStart
    \/ WellnessDay
    \/ WellnessAppend
    \/ ClockMoves

SpecWellness == InitWellness /\ [][NextWellness]_vars

\* The loop always gets its next pass: the script runs on.
SpecWellnessFair ==
    SpecWellness /\ WF_vars(WellnessDay) /\ WF_vars(WellnessAppend)

(***************************************************************************)
(* sync_garmin.py: get_intraday_data(garmin_client, start_date, days) and  *)
(* its caller sync_wellness_intraday.  The parameter start_date is not     *)
(* read by the function.                                                   *)
(***************************************************************************)
\* sync_wellness_intraday: get_intraday_data(..., days=3)
SyncIntradayDays == 3

IntradayHeader == [header |-> TRUE, Date |-> <<0, 0, 0>>]

\* What the try block of one day adds to intraday_data before it ends or raises:
\* nothing, or entries of that day (one stands for them).
IntradayEntries(d) == {<<>>, <<[header |-> FALSE, Date |-> isoformat(d)]>>}

InitIntraday ==
    /\ df = <<>>
    /\ today \in Days
    /\ NoOutputs
    /\ NoTrimpCall
    /\ prev_run = <<>>
    /\ phys_exc = NoException
    /\ st_messages = <<>>
    /\ NoCoach
    /\ NoSync
    /\ NoWellness
    /\ pc = "intra_call"
    /\ via_sync \in BOOLEAN
    /\ days \in (IF via_sync THEN {SyncIntradayDays} ELSE 0..MaxIntradayDays)
    /\ end_date = today
    /\ start = today
    /\ current = today
    /\ intraday_data = <<>>
    /\ visited = <<>>
    /\ intraday_sheet = <<>>

\* Variant: the range starts N - 1 days back, N days in all.
IntradayBegin_exclusive ==
    /\ pc = "intra_call"
    /\ end_date' = today
    /\ start' = end_date' - days + 1
    /\ current' = end_date'
    /\ intraday_data' = <<>>
    /\ pc' = "intra_loop"
    /\ UNCHANGED <<days, via_sync, visited, intraday_sheet>>
    /\ UNCHANGED <<dashVars, coachVars, syncVars, wellVars>>

\* intraday_data = []; end_date = today; start = end_date - timedelta(days=days);
\* current = end_date
IntradayBegin ==
    /\ pc = "intra_call"
    /\ end_date' = today
    /\ start' = end_date' - days
    /\ current' = end_date'
    /\ intraday_data' = <<>>
    /\ pc' = "intra_loop"
    /\ UNCHANGED <<days, via_sync, visited, intraday_sheet>>
    /\ UNCHANGED <<dashVars, coachVars, syncVars, wellVars>>

\* One pass of `while current >= start`: the try block with its fetches (what it
\* has appended stays when it raises), the except, current -= one day.
IntradayDay ==
    /\ pc = "intra_loop"
    /\ current >= start
    /\ \E entries \in IntradayEntries(current) : intraday_data' = intraday_data \o entries
    /\ visited' = Append(visited, current)
    /\ current' = current - 1
    /\ UNCHANGED <<pc, days, via_sync, end_date, start, intraday_sheet>>
    /\ UNCHANGED <<dashVars, coachVars, syncVars, wellVars>>

\* The loop is left: return intraday_data.
IntradayReturn ==
    /\ pc = "intra_loop"
    /\ current < start
    /\ pc' = "intra_returned"
    /\ UNCHANGED intraVars
    /\ UNCHANGED <<dashVars, coachVars, syncVars, wellVars>>

\* sync_wellness_intraday after the call: nothing on empty data; else the worksheet
\* is cleared (or created) and written from A1; an exception on the way is logged,
\* the sheet being as it was or already cleared.
IntradayWrite ==
    /\ pc = "intra_returned"
    /\ via_sync
    /\ IF intraday_data = <<>>
       THEN intraday_sheet' = intraday_sheet
       ELSE intraday_sheet' \in {<<IntradayHeader>> \o intraday_data, <<>>, intraday_sheet}
    /\ pc' = "intra_done"
    /\ UNCHANGED <<days, via_sync, end_date, start, current, intraday_data, visited>>
    /\ UNCHANGED <<dashVars, coachVars, syncVars, wellVars>>

NextIntraday ==
    \/ IntradayBegin
    \/ IntradayDay
    \/ IntradayReturn
    \/ IntradayWrite

SpecIntraday == InitIntraday /\ [][NextIntraday]_vars

\* The function runs on once called.
SpecIntradayFair ==
    SpecIntraday /\ WF_vars(IntradayBegin) /\ WF_vars(IntradayDay) /\ WF_vars(IntradayReturn)


(***************************************************************************)
(* Properties.                                                             *)
(***************************************************************************)
EarliestDay == SetMin({df[i].Date[1] : i \in 1..Len(df)})
LatestDay == SetMax({df[i].Date[1] : i \in 1..Len(df)})
Returned == pc = "returned" /\ Len(df) > 0 /\ ~Raises(df)
HasSeries == pc \in {"metrics", "rendered", "returned"} /\ Len(df) > 0 /\ ~Raises(df)
Labels == {"Optimal", "High", "Overreach", "Recovery"}

\* C1: whatever the duration, calculate_trimp returns exactly 0 for avg_hr == 0
\* (both definitions, utils.py and dashboard.py).
C1_ZeroHeartRateZeroLoad ==
    (pc = "trimp_returned" /\ avg_hr = 0) => (trimp = 0 /\ dash_trimp = 0)

C1_Witness ==
    pc = "trimp_returned" /\ avg_hr = 0 /\ duration_min = 300 /\ trimp = 0

\* C2 as stated: the series of calculate_physiology has (today - earliest) + 1 rows.
C2_LengthThroughToday ==
    Returned => Len(phys_result) = today - EarliestDay + 1

\* C2, amended: the series of calculate_physiology has exactly one row per calendar
\* day from the earliest record's day through the later of today and the latest
\* record's day.
C2_LengthThroughLaterOfTodayAndLatest ==
    Returned =>
        LET end == IF LatestDay < today THEN today ELSE LatestDay
        IN  /\ Len(phys_result) = end - EarliestDay + 1
            /\ \A i \in 1..Len(phys_result) : phys_result[i].Date = EarliestDay + i - 1

C2_Witness ==
    /\ Returned
    /\ EarliestDay = 0
    /\ LatestDay = 1
    /\ today = 2
    /\ Len(phys_result) = 3
    /\ phys_result[3].TRIMP = 0
    /\ phys_result[3].CTL # 0

\* C3: the latest-day snapshot of the dashboard is the row dated today.
C3_SnapshotRowIsToday ==
    HasSeries => current_metrics.Date = today

\* C4: in every row of every physiology series, TSB = CTL - ATL.
C4_FormIsFitnessMinusFatigue ==
    /\ HasSeries =>
           \A i \in 1..Len(df_phys) : df_phys[i].TSB = df_phys[i].CTL - df_phys[i].ATL
    /\ Returned =>
           \A i \in 1..Len(phys_result) :
               phys_result[i].TSB = phys_result[i].CTL - phys_result[i].ATL

C4_Witness ==
    /\ Returned
    /\ \E i \in 1..Len(phys_result) : phys_result[i].TSB > 0
    /\ \E i \in 1..Len(df_phys) : df_phys[i].TSB # 0 /\ df_phys[i].CTL > 0

\* The frame with the workout of row k replaced by effort e on the same Date.
WithEffort(k, e) == [df EXCEPT ![k] = [Date |-> df[k].Date, Duration |-> e[1], AvgHR |-> e[2]]]

\* The rows of series a dated before day n are the rows of series b dated before n.
SameBefore(a, b, n) ==
    \A i \in 1..Len(a) : a[i].Date < n => (i <= Len(b) /\ b[i] = a[i])

\* C5: changing the load of day N (another workout in place of one of that day)
\* leaves every row dated before N as it was, in both pipelines.  (Stated of the
\* first run: a rerun works on the same frame.)
C5_Causality ==
    (Returned /\ prev_run = <<>>) =>
        \A k \in 1..Len(df) : \A e \in Efforts \ {<<df[k].Duration, df[k].AvgHR>>} :
            /\ SameBefore(phys_result, calculate_physiology(WithEffort(k, e), today),
                          df[k].Date[1])
            /\ SameBefore(df_phys, dash_physiology(WithEffort(k, e)), df[k].Date[1])

C5_Witness ==
    /\ Returned
    /\ \E k \in 1..Len(df) : \E e \in Efforts :
           /\ df[k].Date[1] = 1
           /\ EarliestDay = 0
           /\ phys_result[1].TRIMP # 0
           /\ calculate_physiology(WithEffort(k, e), today)[2] # phys_result[2]

C7_LabelOfRatio ==
    pc = "rendered" =>
        LET n == load_ratio[1]
            d == load_ratio[2]
        IN  /\ status_text \in Labels
            /\ status_text = "Optimal" <=> (8 * d <= 10 * n /\ 10 * n <= 13 * d)
            /\ status_text = "High" <=> (13 * d < 10 * n /\ 10 * n <= 15 * d)
            /\ status_text = "Overreach" <=> 10 * n > 15 * d
            /\ status_text = "Recovery" <=> 10 * n < 8 * d

C7_Witness ==
    /\ pc = "rendered"
    /\ curr_ctl = 10000
    /\ curr_atl = 15000
    /\ status_text = "High"

\* C8: the ratio is fatigue / fitness when the latest fitness is > 0 and 0
\* otherwise, its denominator is never 0, and fitness = fatigue = 0 gives ratio 0
\* and the label Recovery.
C8_RatioGuarded ==
    pc = "rendered" =>
        /\ load_ratio[2] # 0
        /\ curr_ctl > 0 => load_ratio[1] * curr_ctl = curr_atl * load_ratio[2]
        /\ ~(curr_ctl > 0) => load_ratio[1] = 0
        /\ (curr_ctl = 0 /\ curr_atl = 0) => status_text = "Recovery"

C8_Witness ==
    /\ pc = "rendered"
    /\ curr_ctl = 0
    /\ curr_atl = 0
    /\ load_ratio[1] = 0
    /\ status_text = "Recovery"

\* C9: on an empty frame the dashboard stops before the physiology block (no
\* series, no latest values, no ratio, no label) and calculate_physiology returns None.
C9_EmptyFrame ==
    Len(df) = 0 =>
        /\ pc \in {"loaded", "stopped", "returned"}
        /\ df_phys = Unset
        /\ current_metrics = Unset
        /\ curr_ctl = Unset
        /\ curr_atl = Unset
        /\ curr_tsb = Unset
        /\ load_ratio = Unset
        /\ status_text = Unset
        /\ pc = "returned" => phys_result = None

C9_Witness ==
    Len(df) = 0 /\ pc = "returned" /\ phys_result = None /\ df_phys = Unset

\* C10: every daily load of every series is >= 0.
C10_DailyLoadNonNegative ==
    /\ HasSeries => \A i \in 1..Len(df_phys) : df_phys[i].TRIMP >= 0
    /\ Returned => \A i \in 1..Len(phys_result) : phys_result[i].TRIMP >= 0

\* The frame with its rows i and j exchanged.
Swapped(i, j) == [df EXCEPT ![i] = df[j], ![j] = df[i]]

\* Rows one calendar day apart, ascending.
Contiguous(ser) == \A i \in 2..Len(ser) : ser[i].Date = ser[i - 1].Date + 1

\* C11: whatever the order of the records and however many share a date, the daily
\* series is strictly ascending with consecutive rows exactly one day apart.
C11_AscendingNoGaps ==
    /\ HasSeries => (Len(df_phys) >= 1 /\ Contiguous(df_phys))
    /\ Returned => (Len(phys_result) >= 1 /\ Contiguous(phys_result))

C11_Witness ==
    /\ Returned
    /\ Len(df) = 2
    /\ df[1].Date[1] = 2
    /\ df[2].Date[1] = 0
    /\ Len(df_phys) = 3
    /\ df_phys[2].Date = 1

\* The summed load of the records of the frame on calendar day `day`, row by row.
RECURSIVE LoadOfDay(_, _)
LoadOfDay(k, day) ==
    IF k = 0 THEN 0
    ELSE (IF df[k].Date[1] = day THEN calculate_trimp(df[k].Duration, df[k].AvgHR) ELSE 0)
         + LoadOfDay(k - 1, day)

RECURSIVE DashLoadOfDay(_, _)
DashLoadOfDay(k, day) ==
    IF k = 0 THEN 0
    ELSE (IF df[k].Date[1] = day THEN dash_calculate_trimp(df[k].Duration, df[k].AvgHR) ELSE 0)
         + DashLoadOfDay(k - 1, day)

\* C14: the load of a day is the sum of the loads of all records of that calendar
\* date, whatever their time of day, and of no other record.
C14_DailyLoadIsSumOfTheDay ==
    /\ HasSeries =>
           \A i \in 1..Len(df_phys) : df_phys[i].TRIMP = DashLoadOfDay(Len(df), df_phys[i].Date)
    /\ Returned =>
           \A i \in 1..Len(phys_result) :
               phys_result[i].TRIMP = LoadOfDay(Len(df), phys_result[i].Date)

C14_Witness ==
    /\ Returned
    /\ Len(df) = 2
    /\ df[1].Date = <<0, 1>>
    /\ df[2].Date = <<0, 0>>
    /\ df[1].AvgHR = 150
    /\ df[2].AvgHR = 150
    /\ Len(phys_result) = 2
    /\ phys_result[1].TRIMP = 2 * calculate_trimp(30, 150)
    /\ phys_result[2].TRIMP = 0

\* Rows following the span-42 / span-7 recurrence seeded with the first load.
FollowsRecurrence(ser) ==
    /\ ser[1].CTL = ser[1].TRIMP
    /\ ser[1].ATL = ser[1].TRIMP
    /\ ser[1].TSB = 0
    /\ \A i \in 2..Len(ser) :
           /\ ser[i].CTL = (2 * ser[i].TRIMP + 41 * ser[i - 1].CTL) \div 43
           /\ ser[i].ATL = (ser[i].TRIMP + 3 * ser[i - 1].ATL) \div 4

\* C15: fitness[0] = fatigue[0] = load[0], form[0] = 0, and for i > 0
\* fitness[i] = (2/43) load[i] + (41/43) fitness[i-1],
\* fatigue[i] = (1/4) load[i] + (3/4) fatigue[i-1].
C15_EmaRecurrence ==
    /\ HasSeries => FollowsRecurrence(df_phys)
    /\ Returned => FollowsRecurrence(phys_result)

C15_Witness ==
    /\ Returned
    /\ Len(phys_result) = 3
    /\ phys_result[1].TRIMP > 0
    /\ phys_result[2].TRIMP < 0
    /\ phys_result[3].TRIMP = 0
    /\ phys_result[3].CTL # phys_result[3].ATL

\* On the zero-load rows after the first: decay by 41/43 and 3/4, strictly down
\* and not below 0 from a positive value, fatigue by the smaller factor.
DecaysOnRestDays(ser) ==
    \A i \in 2..Len(ser) :
        ser[i].TRIMP = 0 =>
            /\ ser[i].CTL = (41 * ser[i - 1].CTL) \div 43
            /\ ser[i].ATL = (3 * ser[i - 1].ATL) \div 4
            /\ ser[i - 1].CTL > 0 => (0 <= ser[i].CTL /\ ser[i].CTL < ser[i - 1].CTL)
            /\ ser[i - 1].ATL > 0 => (0 <= ser[i].ATL /\ ser[i].ATL < ser[i - 1].ATL)
            /\ (ser[i - 1].CTL > 0 /\ ser[i - 1].ATL > 0) =>
                   (4 * ser[i].ATL <= 3 * ser[i - 1].ATL
                    /\ 43 * ser[i].CTL > 41 * ser[i - 1].CTL - 43)

\* C16: on every zero-load day i > 0, fitness[i] = (41/43) fitness[i-1] and
\* fatigue[i] = (3/4) fatigue[i-1]; after positive values both strictly decrease,
\* stay >= 0, and fatigue shrinks by the larger step.
C16_RestDayDecay ==
    /\ HasSeries => DecaysOnRestDays(df_phys)
    /\ Returned => DecaysOnRestDays(phys_result)

C16_Witness ==
    /\ Returned
    /\ Len(df) = 1
    /\ Len(phys_result) = 3
    /\ phys_result[1].TRIMP > 0
    /\ phys_result[2].TRIMP = 0
    /\ phys_result[3].TRIMP = 0
    /\ phys_result[3].CTL < phys_result[2].CTL
    /\ phys_result[3].ATL < phys_result[3].CTL

\* C17: any reordering of the same records (any exchange of two rows of the frame)
\* yields the same series in both pipelines.  (Stated of the first run.)
C17_OrderIndependent ==
    (Returned /\ prev_run = <<>>) =>
        \A i \in 1..Len(df) : \A j \in (i + 1)..Len(df) :
            /\ calculate_physiology(Swapped(i, j), today) = phys_result
            /\ dash_physiology(Swapped(i, j)) = df_phys

C17_Witness ==
    /\ Returned
    /\ Len(df) = 2
    /\ df[1].Date = df[2].Date
    /\ df[1].AvgHR = 40
    /\ df[2].AvgHR = 150
    /\ calculate_physiology(Swapped(1, 2), today) = phys_result

\* C18: for duration > 0 and avg_hr != 0 the load has the sign of avg_hr - RHR:
\* no clamping.
C18_LoadHasSignOfReserve ==
    (pc = "trimp_returned" /\ duration_min > 0 /\ avg_hr # 0) =>
        /\ avg_hr < RHR => (trimp < 0 /\ dash_trimp < 0)
        /\ avg_hr = RHR => (trimp = 0 /\ dash_trimp = 0)
        /\ avg_hr > RHR => (trimp > 0 /\ dash_trimp > 0)

C18_Witness ==
    pc = "trimp_returned" /\ duration_min = 1 /\ avg_hr = 44 /\ trimp < 0

\* max(x, 0): what clamping a negative input would leave of it.
Clamped(x) == IF x < 0 THEN 0 ELSE x

\* C12: a negative duration or a negative average heart rate is rejected or clamped
\* before it contributes: the load returned for such a record is the load of the
\* clamped inputs, never what the formula makes of the negative value.
C12_NegativeInputsClamped ==
    (pc = "trimp_returned" /\ (duration_min < 0 \/ avg_hr < 0)) =>
        /\ trimp = calculate_trimp(Clamped(duration_min), Clamped(avg_hr))
        /\ dash_trimp = dash_calculate_trimp(Clamped(duration_min), Clamped(avg_hr))

\* C13: a failure inside the training-load computation surfaces as an explicit
\* error: once the physiology block has raised, the page carries an error message
\* (the four numbers and the label are not all there is to see).
C13_FailureSurfaces ==
    phys_exc # NoException => st_messages # <<>>

\* The first model of the list that answers, 0 if none does.
FirstResponder ==
    IF \E i \in 1..Len(models) : responses[i].ok
    THEN SetMin({i \in 1..Len(models) : responses[i].ok})
    ELSE 0

\* C19: ask_gemini_coach tries the models in their listed order, returns the text of
\* the first that answers without calling a later one, raises exactly when the key
\* lookup / configuration or every model fails, returns no placeholder, and a call
\* that failed leaves nothing in the cache.
C19_FirstResponderOrRaise ==
    /\ pc = "coach_loop" => called = SubSeq(models, 1, m_idx - 1)
    /\ pc = "coach_return" =>
           /\ secrets_ok
           /\ FirstResponder # 0
           /\ called = SubSeq(models, 1, FirstResponder)
           /\ coach_result = responses[FirstResponder].text
    /\ pc = "coach_raised" =>
           /\ ~secrets_ok \/ FirstResponder = 0
           /\ called = IF secrets_ok THEN models ELSE <<>>
           /\ coach_exc # <<>>
    /\ (pc \in {"coach_raised", "coach_shown"} /\ coach_exc # <<>>) =>
           /\ cache = <<>>
           /\ advice_text = ""
    /\ (pc = "coach_shown" /\ coach_exc = <<>>) =>
           /\ cache = <<advice_text>>
           /\ error_display = <<>>
    /\ cache # <<>> => cache[1] \in Texts

C19_Witness ==
    /\ pc = "coach_return"
    /\ ~responses[1].ok
    /\ responses[2].ok
    /\ responses[3].ok
    /\ called = <<"gemini-1.5-flash", "gemini-2.0-flash-exp">>
    /\ coach_result = responses[2].text
    /\ responses[3].text # responses[2].text

\* C20: after any sequence of sync runs no Activity ID appears in more than one
\* data row of the activity sheet, and a run that fetches only already-stored
\* activities appends nothing.
C20_NoDuplicateActivityIds ==
    /\ \A i \in 1..Len(sheet_rows) : \A j \in (i + 1)..Len(sheet_rows) :
           (~sheet_rows[i].header /\ ~sheet_rows[j].header) =>
               sheet_rows[i].id # sheet_rows[j].id
    /\ pc = "sync_append" =>
           LET stored == {sheet_rows[i].id : i \in {k \in 1..Len(sheet_rows) :
                                                       ~sheet_rows[k].header}}
               st == AppendLoop(process_activities(activities), existing_ids,
                                [rows |-> sheet_rows, new_rows |-> <<>>])
           IN  (\A k \in 1..Len(activities) : activities[k] \in stored) =>
                   (st.rows = sheet_rows /\ st.new_rows = <<>>)

\* The day numbers of the data rows of a Wellness worksheet.
DaysIn(rows) == {strptime(rows[i].Date) : i \in {k \in 1..Len(rows) : ~rows[k].header}}

\* The number of data rows of the day.
RowsOfDay(rows, d) ==
    Cardinality({i \in 1..Len(rows) : ~rows[i].header /\ rows[i].Date = isoformat(d)})

\* C21: a wellness sync restarts at the latest date already in the sheet (clamped to
\* today), and after any sequence of syncs each date has at most one row.
C21_OneRowPerDate ==
    /\ (pc = "well_loop" /\ DaysIn(sheet_before) # {}) =>
           start_date = (IF SetMax(DaysIn(sheet_before)) > today THEN today
                         ELSE SetMax(DaysIn(sheet_before)))
    /\ pc \in {"well_idle", "well_loop", "well_done"} =>
           \A d \in DaysIn(wellness_sheet) : RowsOfDay(wellness_sheet, d) <= 1

\* <<a, a + 1, ..., b>>
RECURSIVE DayRange(_, _)
DayRange(a, b) == IF a > b THEN <<>> ELSE <<a>> \o DayRange(a + 1, b)

\* The rows the run has appended or is about to append.
NewWellnessRows ==
    IF pc = "well_done"
    THEN SubSeq(wellness_sheet, Len(sheet_before) + 1, Len(wellness_sheet))
    ELSE wellness_rows

\* The safety part of C26.
C26_Safe ==
    /\ pc = "well_loop" =>
           /\ start_date <= today
           /\ current_date <= today + 1
           /\ attempted = DayRange(start_date, current_date - 1)
    /\ pc = "well_done" =>
           /\ attempted = DayRange(start_date, today)
           /\ attempted # <<>>
           /\ attempted[Len(attempted)] = today
    /\ pc \in {"well_loop", "well_done"} =>
           \A d \in failed :
               /\ \A k \in 1..Len(NewWellnessRows) : NewWellnessRows[k].Date # isoformat(d)
               /\ \A i \in 1..Len(sheet_before) :
                      sheet_before[i].Date = isoformat(d) => wellness_sheet[i] = sheet_before[i]

\* C26: within one run every date from start_date (clamped to today) through today
\* is attempted exactly once in ascending order, a date that raises gets no row and
\* does not stop the later dates, and the loop ends after today.
C26_EveryDateOnceThenStop ==
    /\ []C26_Safe
    /\ (pc = "well_loop") ~> (pc = "well_done")

C26_Witness ==
    /\ pc = "well_done"
    /\ attempted = <<0, 1, 2>>
    /\ failed = {1}
    /\ RowsOfDay(wellness_sheet, 2) = 1
    /\ RowsOfDay(wellness_sheet, 1) = 0

\* The clamp of C26 at work: the sheet holds a date later than today.
C26_ClampWitness ==
    /\ pc = "well_done"
    /\ DaysIn(sheet_before) # {}
    /\ SetMax(DaysIn(sheet_before)) > today
    /\ attempted = <<today>>

\* C27: no permanent gap: a date whose fetch failed is attempted again later, so once
\* a sync has read the sheet and fetched every date it attempted, every date from
\* the first synced date through today has a row.
C27_NoPermanentGap ==
    (pc = "well_done" /\ run_clean /\ DaysIn(wellness_sheet) # {}) =>
        \A d \in SetMin(DaysIn(wellness_sheet))..today : RowsOfDay(wellness_sheet, d) >= 1

\* <<a, a - 1, ..., b>>
RECURSIVE DayRangeDown(_, _)
DayRangeDown(a, b) == IF a < b THEN <<>> ELSE <<a>> \o DayRangeDown(a - 1, b)

C22_Safe ==
    /\ pc = "intra_loop" => visited = DayRangeDown(today, current + 1)
    /\ pc \in {"intra_loop", "intra_returned", "intra_done"} => current >= start - 1
    /\ pc \in {"intra_returned", "intra_done"} =>
           /\ visited = DayRangeDown(today, today - days)
           /\ Len(visited) = days + 1
           /\ \A k \in 1..Len(intraday_data) :
                  \E i \in 1..Len(visited) : intraday_data[k].Date = isoformat(visited[i])

C23_PipelinesEquivalent ==
    /\ \A d_min \in TrimpDurations : \A hr \in TrimpHeartRates :
           dash_calculate_trimp(d_min, hr) = calculate_trimp(d_min, hr)
    /\ Returned =>
           /\ phys_result = df_phys
           /\ phys_result[Len(phys_result)] = current_metrics

\* The part of C23 that does hold: same TRIMP function, and the rows of the inline
\* series are the leading rows of what calculate_physiology returns.
C23_InlineIsPrefix ==
    /\ \A d_min \in TrimpDurations : \A hr \in TrimpHeartRates :
           dash_calculate_trimp(d_min, hr) = calculate_trimp(d_min, hr)
    /\ Returned =>
           /\ Len(df_phys) <= Len(phys_result)
           /\ df_phys = SubSeq(phys_result, 1, Len(df_phys))
           /\ Len(df_phys) < Len(phys_result) =>
                  /\ df_phys[Len(df_phys)].Date < today
                  /\ phys_result[Len(phys_result)].Date = today

\* Every daily load of the series is >= 0.
NonNegativeLoads(ser) == \A i \in 1..Len(ser) : ser[i].TRIMP >= 0

\* The loads of rows 1..i.
LoadsUpTo(ser, i) == {ser[j].TRIMP : j \in 1..i}

\* Row by row, CTL and ATL lie between the least and the greatest load so far.
WithinLoadsSoFar(ser) ==
    \A i \in 1..Len(ser) :
        /\ SetMin(LoadsUpTo(ser, i)) <= ser[i].CTL
        /\ ser[i].CTL <= SetMax(LoadsUpTo(ser, i))
        /\ SetMin(LoadsUpTo(ser, i)) <= ser[i].ATL
        /\ ser[i].ATL <= SetMax(LoadsUpTo(ser, i))
        /\ ser[i].CTL >= 0
        /\ ser[i].ATL >= 0

\* C24: if every daily load is non-negative, then for every day i fitness[i] and
\* fatigue[i] lie between the minimum and the maximum of load[0..i]; they are never
\* negative, and the workload ratio is never negative.
C24_SmoothedWithinLoadRange ==
    /\ (HasSeries /\ NonNegativeLoads(df_phys)) =>
           /\ WithinLoadsSoFar(df_phys)
           /\ pc \in {"rendered", "returned"} =>
                  /\ load_ratio[2] > 0
                  /\ load_ratio[1] >= 0
    /\ (Returned /\ NonNegativeLoads(phys_result)) => WithinLoadsSoFar(phys_result)

C24_Witness ==
    /\ Returned
    /\ NonNegativeLoads(phys_result)
    /\ Len(phys_result) = 3
    /\ phys_result[1].TRIMP = 0
    /\ phys_result[2].TRIMP > 0
    /\ phys_result[3].TRIMP = 0
    /\ phys_result[2].CTL > 0
    /\ phys_result[2].CTL < phys_result[2].ATL
    /\ phys_result[2].ATL < phys_result[2].TRIMP
    /\ phys_result[3].CTL < phys_result[2].CTL
    /\ phys_result[3].ATL > 0
    /\ Len(df_phys) = 2
    /\ load_ratio[1] > load_ratio[2]

\* C25: if init_garmin() or init_gspread() returned None, sync logs the failure
\* and returns normally: no exception leaves it, and the run has read or written
\* no sheet and fetched nothing from Garmin.
C25_InitFailureReturns ==
    (pc # "sync_idle" /\ (~garmin_client \/ ~sheet)) =>
        /\ pc = "sync_returned"
        /\ io_log = <<>>

\* The part of C25 that does hold: with the sheet there and Garmin not, the run
\* returns without any I/O; and no failed initialization is followed by I/O.
C25_GarminFailureReturns ==
    /\ (pc # "sync_idle" /\ ~garmin_client /\ sheet) =>
           /\ pc = "sync_returned"
           /\ io_log = <<>>
    /\ (pc # "sync_idle" /\ ~sheet) =>
           /\ pc = "sync_raised"
           /\ io_log = <<>>

====
